---- MODULE Spec2Model ----
(***************************************************************************)
(* Drive -> GCS incremental synchronisation (wposso/sincronizar_archivos). *)
(*                                                                         *)
(* The model follows the service of src/unnamed/part_001 (lines 1-625):    *)
(* the manual sync route, the 30 s poll, the Drive webhook with its        *)
(* change de-duplication, and the recursive folder walk.  The two other    *)
(* webhook handlers the repository ships (the earlier service, part_001    *)
(* lines 626-994, and src/index.js) are modelled as alternative builds.    *)
(*                                                                         *)
(* Time is a discrete clock; one tick stands for 150 s, so that the        *)
(* 300000 ms CHANGE_TTL and the 5 * 60000 ms poll lookback are 2 ticks.    *)
(* An await of the source is a step boundary: other handlers may run and   *)
(* the clock may advance between two steps of one handler.                 *)
(***************************************************************************)
EXTENDS Integers, Sequences, FiniteSets, TLC

VARIABLES
    now,               \* Date.now(), in ticks
    drive,             \* the Drive tree: node id -> metadata
    mirror,            \* object names present in the GCS bucket
    lastSync,          \* Firestore doc drive_sync_state/last_sync (timestamp or NoDoc)
    runs,              \* the manual-sync requests and poll callbacks in flight
    build,             \* which of the shipped webhook handlers serves /sync/webhook
    processedChanges,  \* the Set of change ids (part_001:30)
    timers,            \* pending setTimeout(() => processedChanges.delete(id), CHANGE_TTL)
    reqs,              \* inbound POST /sync/webhook requests and their background work
    calls,             \* processRealTimeChange invocations in flight
    pageToken,         \* Firestore doc drive_sync_state/page_token
    feed,              \* Drive's change log (file ids), read through changes.list
    retryTopic         \* messages published to SYNC_TOPIC

vars == <<now, drive, mirror, lastSync, runs, build, processedChanges, timers,
          reqs, calls, pageToken, feed, retryTopic>>

syncVars == <<lastSync, runs>>
hookVars == <<build, processedChanges, timers, reqs, calls, pageToken, feed, retryTopic>>

----------------------------------------------------------------------------
(* Bounds of the model *)

MaxTime == 5          \* the clock stops here
IsoWidth == 3         \* characters of a formatted timestamp
MaxRuns == 2          \* sync triggers (manual requests, poll ticks) of one behaviour
MaxReq == 2           \* webhook notifications of one behaviour
MaxCalls == 3         \* direct calls of the change processor of one behaviour
MaxFeed == 2          \* entries of Drive's change log
MaxFailures == 1      \* failing requests of one walk of the whole tree
ListPageSize == 2     \* items per page of files.list (pageSize=1000 in the code)

(* Program constants, in ticks of 150 s *)

CHANGE_TTL == 2       \* part_001:31, 300000 ms
LOOKBACK == 2         \* part_001:560, 5 * 60000 ms
EPOCH_1970 == 0       \* part_001:359, new Date(0): the clock's origin
EPOCH_2000 == 1       \* part_001:39, '2000-01-01T00:00:00.000Z'
PAGE_SIZE == 10       \* part_001:466, pageSize of changes.list

ROOT_FOLDER_ID == "root"
NoDoc == <<>>           \* the document does not exist
Nowhere == "nowhere"

RunIds == 1..MaxRuns
ReqIds == 1..MaxReq
CallIds == 1..MaxCalls
Missing == "missing"    \* a header or body field the request does not carry
NoToken == -1           \* the page_token document does not exist

(* The nodes the model's Drive may hold, in the order files.list returns them *)
NodeSeq == <<"f1", "d1", "f2", "f3", "f4">>
NodeIds == {NodeSeq[i] : i \in 1..Len(NodeSeq)}

NameOf(n) == CASE n = "f1" -> "a.txt"
               [] n = "d1" -> "D"
               [] n = "f2" -> "b.txt"
               [] n = "f3" -> "c.PDF"
               [] n = "f4" -> "e.txt"
               [] OTHER -> n

----------------------------------------------------------------------------
(* Timestamps.  Date.prototype.toISOString yields a fixed-width string whose  *)
(* fields run from the most significant to the least; the code compares such  *)
(* strings with <, i.e. lexicographically.  A timestamp string is modelled as *)
(* a fixed-width sequence of binary digits, most significant first.           *)

RECURSIVE Pow2(_)
Pow2(k) == IF k = 0 THEN 1 ELSE 2 * Pow2(k - 1)

toISOString(t) == [i \in 1..IsoWidth |-> (t \div Pow2(IsoWidth - i)) % 2]

RECURSIVE ParseFrom(_, _)
ParseFrom(s, acc) == IF s = <<>> THEN acc ELSE ParseFrom(Tail(s), 2 * acc + Head(s))

(* Drive parses the RFC 3339 string of a modifiedTime query term *)
parseISO(s) == ParseFrom(s, 0)

(* JavaScript's < on two strings: lexicographic, a proper prefix is smaller *)
RECURSIVE StrLess(_, _)
StrLess(a, b) ==
    IF b = <<>> THEN FALSE
    ELSE IF a = <<>> THEN TRUE
    ELSE IF Head(a) # Head(b) THEN Head(a) < Head(b)
    ELSE StrLess(Tail(a), Tail(b))

DEFAULT_LAST_SYNC == toISOString(EPOCH_2000)

----------------------------------------------------------------------------
(* The Drive tree and the folder walk *)

IsFolder(d, n) == d[n].kind = "folder"

(* files.list with q = "'<folderId>' in parents and trashed = false" *)
ListAll(d, folderId) ==
    SelectSeq(NodeSeq, LAMBDA n : d[n].parent = folderId /\ ~d[n].trashed)

ListNotTrashed(d, folderId, modifiedSince) == ListAll(d, folderId)

ListFoldersAlways(d, folderId, modifiedSince) ==
    SelectSeq(NodeSeq, LAMBDA n : /\ d[n].parent = folderId
                                  /\ ~d[n].trashed
                                  /\ \/ IsFolder(d, n)
                                     \/ d[n].modifiedTime > parseISO(modifiedSince))

(* ... and modifiedTime > '<modifiedSince>' *)
ListModified(d, folderId, modifiedSince) ==
    SelectSeq(NodeSeq, LAMBDA n : /\ d[n].parent = folderId
                                  /\ ~d[n].trashed
                                  /\ d[n].modifiedTime > parseISO(modifiedSince))

isFolderEmptyAlways(d, folderId) == TRUE

isFolderEmpty(d, folderId) == Len(ListAll(d, folderId)) = 0

(* `failed` names the leaves counted in fail; the code keeps only the count *)
Stats0 == [threw |-> FALSE, ok |-> 0, fail |-> 0, folders |-> 0, writes |-> {},
           failed |-> {}]

AddStatsOwnFolders(a, b) == [threw |-> a.threw \/ b.threw,
                             ok |-> a.ok + b.ok,
                             fail |-> a.fail + b.fail,
                             folders |-> a.folders,
                             writes |-> a.writes \cup b.writes,
                             failed |-> a.failed \cup b.failed]

(* ok += subStats.ok; fail += subStats.fail; folders += subStats.folders *)
AddStats(a, b) == [threw |-> a.threw \/ b.threw,
                   ok |-> a.ok + b.ok,
                   fail |-> a.fail + b.fail,
                   folders |-> a.folders + b.folders,
                   writes |-> a.writes \cup b.writes,
                   failed |-> a.failed \cup b.failed]

Thrown(s) == [s EXCEPT !.threw = TRUE]

endsWith(s, suffix) ==
    Len(s) >= Len(suffix) /\ SubSeq(s, Len(s) - Len(suffix) + 1, Len(s)) = suffix

(* name.toLowerCase(): the model's names are lower case but for an upper *)
(* case extension                                                        *)
toLowerCase(s) ==
    IF endsWith(s, ".PDF") THEN SubSeq(s, 1, Len(s) - 4) \o ".pdf" ELSE s

(* index.js:242-249 *)
buildObjectNameFromFile(name) ==
    IF ~endsWith(toLowerCase(name), ".pdf") THEN name \o ".pdf" ELSE name

(* The last component of the object name of a leaf: item.name in the service *)
(* of part_001 (line 290), buildObjectNameFromFile(item.name) in index.js    *)
(* (line 161)                                                                *)
LeafObjectName(name) ==
    IF build = "index" THEN buildObjectNameFromFile(name) ELSE name

ProcessLeafAborts(d, item, prefix, bad) ==
    IF item \in bad
    THEN Thrown(Stats0)
    ELSE [Stats0 EXCEPT !.ok = 1,
                        !.writes = {Append(prefix, LeafObjectName(d[item].name))}]

(* One leaf of the loop: download, then upload under prefix + name; an error *)
(* of either is caught and counted.                                          *)
ProcessLeaf(d, item, prefix, bad) ==
    IF item \in bad
    THEN [Stats0 EXCEPT !.fail = 1, !.failed = {item}]
    ELSE [Stats0 EXCEPT !.ok = 1,
                        !.writes = {Append(prefix, LeafObjectName(d[item].name))}]

PlaceholderBranchSkips(d, folderId, prefix, bad) == Stats0

(* The empty-listing branch: a placeholder for a folder with no children *)
PlaceholderBranch(d, folderId, prefix, bad) ==
    IF isFolderEmpty(d, folderId)
    THEN IF "placeholder" \in bad
         THEN [Stats0 EXCEPT !.fail = 1]
         ELSE [Stats0 EXCEPT !.ok = 1, !.writes = {Append(prefix, "__placeholder")}]
    ELSE Stats0

(* processFolderIncremental(folderId, prefix, token, modifiedSince).  `bad` is *)
(* what fails in this walk: a folder id (or the root) whose listing answers    *)
(* with an error, a leaf id whose download or upload fails, "placeholder".     *)
(* A listing error is thrown; the recursive call is awaited outside any try,   *)
(* so a descendant's listing error leaves the loop as well.                    *)
RECURSIVE processFolderIncremental(_, _, _, _, _)
RECURSIVE processItems(_, _, _, _, _)

processItems(d, items, prefix, modifiedSince, bad) ==
    IF items = <<>> THEN Stats0
    ELSE LET item == Head(items)
             first == IF IsFolder(d, item)
                      THEN AddStats([Stats0 EXCEPT !.folders = 1],
                                    processFolderIncremental(d, item,
                                        Append(prefix, d[item].name), modifiedSince, bad))
                      ELSE ProcessLeaf(d, item, prefix, bad)
         IN IF first.threw THEN first
            ELSE AddStats(first, processItems(d, Tail(items), prefix, modifiedSince, bad))

processFolderIncremental(d, folderId, prefix, modifiedSince, bad) ==
    IF folderId \in bad THEN Thrown(Stats0)
    ELSE LET items == ListModified(d, folderId, modifiedSince)
         IN IF Len(items) = 0
            THEN PlaceholderBranch(d, folderId, prefix, bad)
            ELSE processItems(d, items, prefix, modifiedSince, bad)

(* The nodes at and below the nodes of S *)
RECURSIVE Below(_, _, _)
Below(d, S, k) ==
    IF k = 0 THEN S
    ELSE Below(d, S \cup {m \in NodeIds : d[m].parent \in S}, k - 1)

(* What may fail during a walk that visits the nodes of S and their subtrees *)
Failures(d, S) == SUBSET (Below(d, S, Len(NodeSeq)) \cup {"placeholder"})

----------------------------------------------------------------------------
(* The watermark store *)

(* getLastSyncTime: the stored timestamp; the default when the document is *)
(* absent or the read fails.                                               *)
getLastSyncTime(doc, readFails) ==
    IF readFails \/ doc = NoDoc THEN DEFAULT_LAST_SYNC ELSE doc

(* The time a last_sync document stands for; the epoch floor when absent *)
WatermarkTime(doc) == parseISO(getLastSyncTime(doc, FALSE))

setLastSyncTimeAlways(doc, timestamp, writeFails) == timestamp

(* setLastSyncTime: the write, or nothing when it fails (the error is logged) *)
setLastSyncTime(doc, timestamp, writeFails) ==
    IF writeFails THEN doc ELSE timestamp

----------------------------------------------------------------------------
(* The clock and the Drive users *)

Tick ==
    /\ now < MaxTime
    /\ \A tm \in timers : tm.due > now
    /\ now' = now + 1
    /\ UNCHANGED <<drive, mirror, syncVars, hookVars>>

(* A user edits a node: Drive stamps it with the current time *)
Modify(n) ==
    /\ drive[n].parent # Nowhere
    /\ ~drive[n].trashed
    /\ drive[n].modifiedTime # now
    /\ drive' = [drive EXCEPT ![n].modifiedTime = now]

(* A user moves a node to the trash *)
Trash(n) ==
    /\ drive[n].parent # Nowhere
    /\ ~drive[n].trashed
    /\ drive' = [drive EXCEPT ![n].trashed = TRUE]

----------------------------------------------------------------------------
(* Manual sync (POST /sync) and the poll (setInterval callback) *)

IdleRun == [kind |-> "none", pc |-> "idle",
            since |-> DEFAULT_LAST_SYNC,
            stamp |-> DEFAULT_LAST_SYNC, items |-> <<>>,
            ok |-> 0, fail |-> 0, folders |-> 0,
            threw |-> "none", response |-> 0, readAt |-> 0,
            failed |-> {}]   \* the leaves behind the fail count

PollSinceEarlier(lastRun, t) ==
    LET fiveMinutesAgo == toISOString(t - LOOKBACK)
    IN IF StrLess(lastRun, fiveMinutesAgo) THEN lastRun ELSE fiveMinutesAgo

(* modifiedSince of the poll: lastRun < fiveMinutesAgo ? fiveMinutesAgo : lastRun *)
PollSince(lastRun, t) ==
    LET fiveMinutesAgo == toISOString(t - LOOKBACK)
    IN IF StrLess(lastRun, fiveMinutesAgo) THEN fiveMinutesAgo ELSE lastRun

PollCommitsAlways(ok, fail) == ok + fail >= 0

(* if (stats.ok > 0) of the poll *)
PollShouldCommit(ok, fail) == ok > 0

OnThrowSwallowed(run, site) ==
    [run EXCEPT !.pc = "commit", !.threw = site, !.items = <<>>]

(* The catch block of a trigger: the manual route answers 500, the poll logs *)
OnThrow(run, site) ==
    [IdleRun EXCEPT !.kind = run.kind, !.pc = "done", !.threw = site,
                    !.ok = run.ok, !.fail = run.fail, !.folders = run.folders,
                    !.response = IF run.kind = "manual" THEN 500 ELSE 0]

(* The trigger ends normally: the manual route answers 200 with the stats *)
OnSuccess(run) ==
    [IdleRun EXCEPT !.kind = run.kind, !.pc = "done",
                    !.ok = run.ok, !.fail = run.fail, !.folders = run.folders,
                    !.response = IF run.kind = "manual" THEN 200 ELSE 0]

AfterWalkNeedsOk(run, st, t) ==
    LET done == [run EXCEPT !.ok = run.ok + st.ok, !.fail = run.fail + st.fail,
                            !.folders = run.folders + st.folders, !.items = <<>>,
                            !.failed = run.failed \cup st.failed]
    IN IF PollShouldCommit(done.ok, done.fail)
       THEN [done EXCEPT !.pc = "commit",
                         !.stamp = IF run.kind = "manual" THEN run.stamp
                                   ELSE toISOString(t)]
       ELSE OnSuccess(done)

(* What follows the walk's return.  The manual route goes on to write the    *)
(* currentTime it took before the walk; the poll takes new Date() now, and   *)
(* only when something was synchronised.                                     *)
AfterWalk(run, st, t) ==
    LET done == [run EXCEPT !.ok = run.ok + st.ok, !.fail = run.fail + st.fail,
                            !.folders = run.folders + st.folders, !.items = <<>>,
                            !.failed = run.failed \cup st.failed]
    IN IF run.kind = "manual"
       THEN [done EXCEPT !.pc = "commit"]
       ELSE IF PollShouldCommit(done.ok, done.fail)
            THEN [done EXCEPT !.pc = "commit", !.stamp = toISOString(t)]
            ELSE OnSuccess(done)

(* The request arrives (or the interval fires) and the credential is obtained *)
StartRun(r, kind) ==
    /\ runs[r].pc = "idle"
    /\ \A q \in RunIds : q < r => runs[q].pc # "idle"
    /\ \E authFails \in BOOLEAN :
         runs' = [runs EXCEPT ![r] =
                    IF authFails
                    THEN OnThrow([IdleRun EXCEPT !.kind = kind], "auth")
                    ELSE [IdleRun EXCEPT !.kind = kind, !.pc = "read"]]
    /\ UNCHANGED <<now, drive, mirror, lastSync, hookVars>>

StartManual(r) == StartRun(r, "manual")

StartPoll(r) == StartRun(r, "poll")

(* await getLastSyncTime(), the times computed from Date.now(), and then the *)
(* walk's own listing of the root with its empty-listing branch              *)
ReadAndListStep(r, readFails, bad) ==
    /\ runs[r].pc = "read"
    /\ LET lastRun == getLastSyncTime(lastSync, readFails)
           since == IF runs[r].kind = "manual" THEN lastRun
                    ELSE PollSince(lastRun, now)
           run == [runs[r] EXCEPT
                     !.since = since,
                     !.stamp = IF runs[r].kind = "manual" THEN toISOString(now)
                               ELSE runs[r].stamp,
                     !.readAt = IF runs[r].kind = "poll" THEN now ELSE 0]
           items == ListModified(drive, ROOT_FOLDER_ID, since)
       IN IF ROOT_FOLDER_ID \in bad
          THEN /\ runs' = [runs EXCEPT ![r] = OnThrow(run, "list")]
               /\ UNCHANGED mirror
          ELSE IF Len(items) = 0
               THEN LET st == PlaceholderBranch(drive, ROOT_FOLDER_ID, <<>>, bad)
                    IN /\ mirror' = mirror \cup st.writes
                       /\ runs' = [runs EXCEPT ![r] = AfterWalk(run, st, now)]
               ELSE /\ runs' = [runs EXCEPT ![r] =
                                  [run EXCEPT !.pc = "items", !.items = items]]
                    /\ UNCHANGED mirror
    /\ UNCHANGED <<now, drive, lastSync, hookVars>>

ReadAndList(r) ==
    \E readFails \in BOOLEAN, bad \in SUBSET {ROOT_FOLDER_ID, "placeholder"} :
       ReadAndListStep(r, readFails, bad)

(* The for loop over the listed items, recursion included *)
WalkItems(r) ==
    /\ runs[r].pc = "items"
    /\ \E bad \in Failures(drive, {runs[r].items[i] : i \in 1..Len(runs[r].items)}) :
         LET st == processItems(drive, runs[r].items, <<>>, runs[r].since, bad)
         IN /\ mirror' = mirror \cup st.writes
            /\ runs' = [runs EXCEPT ![r] =
                          IF st.threw THEN OnThrow(@, "sublist")
                          ELSE AfterWalk(@, st, now)]
    /\ UNCHANGED <<now, drive, lastSync, hookVars>>

(* await setLastSyncTime(stamp); the manual route then answers 200 *)
Commit(r) ==
    /\ runs[r].pc = "commit"
    /\ \E writeFails \in BOOLEAN :
         lastSync' = setLastSyncTime(lastSync, runs[r].stamp, writeFails)
    /\ runs' = [runs EXCEPT ![r] = OnSuccess(runs[r])]
    /\ UNCHANGED <<now, drive, mirror, hookVars>>

UserModify ==
    /\ \E n \in NodeIds : Modify(n)
    /\ UNCHANGED <<now, mirror, syncVars, hookVars>>

UserTrash ==
    /\ \E n \in NodeIds : Trash(n)
    /\ UNCHANGED <<now, mirror, syncVars, hookVars>>

(* f1 and the empty folder d1 lie in the root; f2 lies in d1 when `deep`; *)
(* the other nodes are not in the tree                                    *)
DriveAt(t, deep) ==
    [n \in NodeIds |->
        [kind |-> IF n = "d1" THEN "folder" ELSE "file",
         parent |-> IF n \in {"f1", "d1"} THEN ROOT_FOLDER_ID
                    ELSE IF n = "f2" /\ deep THEN "d1" ELSE Nowhere,
         name |-> NameOf(n),
         modifiedTime |-> t,
         trashed |-> FALSE]]

(* The decoded message.data of a Pub/Sub push body: none, text that is not *)
(* JSON, or a JSON object, whose fields are the record's other fields     *)
NoData == [data |-> "none"]

IdleReq == [pc |-> "none", resourceId |-> Missing, resourceState |-> Missing,
            message |-> NoData, response |-> 0, changes |-> <<>>,
            newToken |-> NoToken,
            failed |-> FALSE]   \* a change of the batch went to the catch block

IdleCall == [pc |-> "idle", changeId |-> <<>>, fileId |-> Missing, at |-> 0]

HookIdle ==
    /\ build = "current"
    /\ processedChanges = {}
    /\ timers = {}
    /\ reqs = [q \in ReqIds |-> IdleReq]
    /\ calls = [c \in CallIds |-> IdleCall]
    /\ pageToken = NoToken
    /\ feed = <<>>
    /\ retryTopic = {}

SyncIdle ==
    /\ lastSync = NoDoc
    /\ runs = [r \in RunIds |-> IdleRun]

(* The service has run for a while: the files are older than the clock *)
Init ==
    /\ now = EPOCH_2000 + LOOKBACK
    /\ drive = DriveAt(EPOCH_2000 + 1, FALSE)
    /\ mirror = {}
    /\ SyncIdle
    /\ HookIdle

Next ==
    \/ Tick
    \/ UserModify
    \/ UserTrash
    \/ \E r \in RunIds : StartManual(r)
    \/ \E r \in RunIds : StartPoll(r)
    \/ \E r \in RunIds : ReadAndList(r)
    \/ \E r \in RunIds : WalkItems(r)
    \/ \E r \in RunIds : Commit(r)

Spec == Init /\ [][Next]_vars

----------------------------------------------------------------------------
(* The change processor, processRealTimeChange(changeId, fileId, resourceState) *)

(* if (processedChanges.has(changeId)) return; *)
AdmitsAlways(seen, changeId) == TRUE

Admits(seen, changeId) == changeId \notin seen

NoExpiry(pending, changeId, t) == pending

(* setTimeout(() => processedChanges.delete(changeId), CHANGE_TTL) *)
ScheduleExpiry(pending, changeId, t) ==
    pending \cup {[changeId |-> changeId, due |-> t + CHANGE_TTL]}

(* The synchronous head of the processor, up to its first await: caller c  *)
(* passes changeId; a known id returns at once, a new one is added to the  *)
(* set with its expiry timer and the call goes on.                         *)
EnterProcessor(c, changeId, fileId) ==
    IF Admits(processedChanges, changeId)
    THEN /\ processedChanges' = processedChanges \cup {changeId}
         /\ timers' = ScheduleExpiry(timers, changeId, now)
         /\ calls' = [calls EXCEPT ![c] = [pc |-> "running", changeId |-> changeId,
                                           fileId |-> fileId, at |-> now]]
    ELSE /\ calls' = [calls EXCEPT ![c] = [pc |-> "skipped", changeId |-> changeId,
                                           fileId |-> fileId, at |-> now]]
         /\ UNCHANGED <<processedChanges, timers>>

ApplyChangeSinceNow(d, bucket, fileId, metaFails, bad) ==
    IF metaFails \/ d[fileId].parent = Nowhere
    THEN [threw |-> TRUE, bucket |-> bucket]
    ELSE IF d[fileId].trashed
    THEN IF fileId \in bad
         THEN [threw |-> TRUE, bucket |-> bucket]
         ELSE [threw |-> FALSE, bucket |-> bucket \ {<<d[fileId].name>>}]
    ELSE IF IsFolder(d, fileId)
    THEN LET st == processFolderIncremental(d, fileId, <<d[fileId].name>>,
                                            toISOString(now), bad)
         IN [threw |-> st.threw, bucket |-> bucket \cup st.writes]
    ELSE IF fileId \in bad
         THEN [threw |-> TRUE, bucket |-> bucket]
         ELSE [threw |-> FALSE, bucket |-> bucket \cup {<<d[fileId].name>>}]

(* The body of the try block for the node fileId.  metaFails: the credential *)
(* or the files.get request fails; bad: the nodes whose listing, transfer or *)
(* delete fails.  The result says whether an error reached the catch block   *)
(* and what the bucket holds afterwards.                                     *)
ApplyChange(d, bucket, fileId, metaFails, bad) ==
    IF metaFails \/ d[fileId].parent = Nowhere
    THEN [threw |-> TRUE, bucket |-> bucket]
    ELSE IF d[fileId].trashed
    THEN IF fileId \in bad
         THEN [threw |-> TRUE, bucket |-> bucket]
         ELSE [threw |-> FALSE, bucket |-> bucket \ {<<d[fileId].name>>}]
    ELSE IF IsFolder(d, fileId)
    THEN LET st == processFolderIncremental(d, fileId, <<d[fileId].name>>,
                                            toISOString(EPOCH_1970), bad)
         IN [threw |-> st.threw, bucket |-> bucket \cup st.writes]
    ELSE IF fileId \in bad
         THEN [threw |-> TRUE, bucket |-> bucket]
         ELSE [threw |-> FALSE, bucket |-> bucket \cup {<<d[fileId].name>>}]

(* The message of the catch block: JSON of changeId, fileId and retryCount: 1 *)
(* (resourceState is left out: the model's processor does not read it)        *)
RetryMessage(changeId, fileId) ==
    [changeId |-> changeId, fileId |-> fileId, retryCount |-> 1]

(* The rest of a call that was admitted: the try block, and in its catch the *)
(* publication of a retry message, whose own failure leaves the function as  *)
(* an exception ("thrown").                                                  *)
FinishProcessor(c) ==
    /\ calls[c].pc = "running"
    /\ \E metaFails \in BOOLEAN, publishFails \in BOOLEAN,
          bad \in Failures(drive, {calls[c].fileId}) :
         LET res == ApplyChange(drive, mirror, calls[c].fileId, metaFails, bad)
         IN /\ mirror' = res.bucket
            /\ IF ~res.threw
               THEN /\ calls' = [calls EXCEPT ![c].pc = "returned"]
                    /\ UNCHANGED retryTopic
               ELSE IF publishFails
               THEN /\ calls' = [calls EXCEPT ![c].pc = "thrown"]
                    /\ UNCHANGED retryTopic
               ELSE /\ calls' = [calls EXCEPT ![c].pc = "returned"]
                    /\ retryTopic' = retryTopic \cup
                          {RetryMessage(calls[c].changeId, calls[c].fileId)}

(* The expiry timer of a change id fires *)
Expire ==
    /\ \E tm \in timers :
         /\ tm.due <= now
         /\ processedChanges' = processedChanges \ {tm.changeId}
         /\ timers' = timers \ {tm}
    /\ UNCHANGED <<now, drive, mirror, syncVars, build, reqs, calls, pageToken,
                   feed, retryTopic>>

----------------------------------------------------------------------------
(* The change processor on its own (specification SpecDedup): it is called *)
(* with change ids of a fixed set, as when a change record is delivered    *)
(* again, while users trash files.  A call is made only while its expiry   *)
(* falls within the clock's range.                                         *)

DedupIds == {<<"f1", EPOCH_1970>>, <<"d1", EPOCH_1970>>}

CallProcessor(c) ==
    /\ calls[c].pc = "idle"
    /\ \A k \in CallIds : k < c => calls[k].pc # "idle"
    /\ now + CHANGE_TTL <= MaxTime
    /\ \E id \in DedupIds : EnterProcessor(c, id, id[1])
    /\ UNCHANGED <<now, drive, mirror, syncVars, build, reqs, pageToken, feed,
                   retryTopic>>

CallFinishes(c) ==
    /\ FinishProcessor(c)
    /\ UNCHANGED <<now, drive, syncVars, build, processedChanges, timers, reqs,
                   pageToken, feed>>

InitDedup ==
    /\ now = EPOCH_1970
    /\ drive = DriveAt(EPOCH_1970, FALSE)
    /\ mirror = {}
    /\ SyncIdle
    /\ HookIdle

NextDedup ==
    \/ Tick
    \/ Expire
    \/ UserTrash
    \/ \E c \in CallIds : CallProcessor(c)
    \/ \E c \in CallIds : CallFinishes(c)

SpecDedup == InitDedup /\ [][NextDedup]_vars

(* setTimeout callbacks run once due, and the clock advances *)
LiveSpecDedup == SpecDedup /\ WF_vars(Tick) /\ WF_vars(Expire)

----------------------------------------------------------------------------
(* POST /sync/webhook (specification SpecHook).  The repository ships three *)
(* handlers for the route; `build` says which one is deployed:              *)
(*   "current"  part_001:426-489, validation, cursor and change processor   *)
(*   "earlier"  part_001:852-896, the service file that follows it          *)
(*   "index"    index.js:267-296, the Pub/Sub handler; the Drive handler    *)
(*              registered after it (299-335) is never reached, since the   *)
(*              first handler always answers and never calls next()         *)

Builds == {"current", "earlier", "index"}

(* X-Goog-Resource-State values Drive sends: one the handlers act on, one not *)
ResourceStates == {"change", "sync"}

(* if (!resourceId || !resourceState) *)
IsValidNotification(req) ==
    req.resourceId # Missing /\ req.resourceState # Missing

IsChangeStateAny(st) == TRUE

(* resourceState === 'change' || === 'update' || === 'add' *)
IsChangeState(st) == st \in {"change", "update", "add"}

(* `${change.fileId}-${Date.now()}` *)
MakeChangeId(fileId, t) == <<fileId, t>>

(* extractFileIdFromMessage: data.id || data.fileId || null *)
extractFileIdFromMessage(message) ==
    IF message.data # "json" THEN Missing
    ELSE IF "id" \in DOMAIN message THEN message.id
    ELSE IF "fileId" \in DOMAIN message THEN message.fileId
    ELSE Missing

(* The part of the handler that runs when the request arrives *)
OnRequest(bld, req) ==
    CASE bld = "current" ->
            IF ~IsValidNotification(req)
            THEN [req EXCEPT !.pc = "closed", !.response = 400]
            ELSE [req EXCEPT !.pc = "scheduled", !.response = 200]
      [] bld = "earlier" ->
            [req EXCEPT !.pc = "scheduled", !.response = 200]
      [] OTHER ->
            IF req.message = NoData
            THEN [req EXCEPT !.pc = "closed", !.response = 200]
            ELSE [req EXCEPT !.pc = "processing"]

(* What a request may carry: Drive headers for the two Drive handlers, a *)
(* Pub/Sub push body for index.js                                        *)
Requests(bld) ==
    IF bld = "index"
    THEN {[IdleReq EXCEPT !.resourceId = "f1", !.resourceState = "change",
                          !.message = msg] :
             msg \in {NoData, [data |-> "text"], [data |-> "json", id |-> "f1"]}}
         \cup {[IdleReq EXCEPT !.resourceId = "f1", !.resourceState = "sync"]}
    ELSE {[IdleReq EXCEPT !.resourceId = rid, !.resourceState = st] :
             rid \in {Missing, "f1"}, st \in ResourceStates \cup {Missing}}

Receive(q) ==
    /\ reqs[q].pc = "none"
    /\ \A k \in ReqIds : k < q => reqs[k].pc # "none"
    /\ \E req \in Requests(build) : reqs' = [reqs EXCEPT ![q] = OnRequest(build, req)]
    /\ UNCHANGED <<now, drive, mirror, syncVars, build, processedChanges, timers,
                   calls, pageToken, feed, retryTopic>>

(* changes.list({pageToken, pageSize}): the entries after the token, and *)
(* newStartPageToken when this is the last page                          *)
ListChanges(log, tok) ==
    LET last == IF tok + PAGE_SIZE < Len(log) THEN tok + PAGE_SIZE ELSE Len(log)
    IN [changes |-> SubSeq(log, tok + 1, last),
        newStartPageToken |-> IF last = Len(log) THEN Len(log) ELSE NoToken]

(* current: the setTimeout callback starts: credential, getLastSyncPageToken *)
(* (which stores a start token when the document is absent), changes.list    *)
BgList(q) ==
    /\ build = "current"
    /\ reqs[q].pc = "scheduled"
    /\ IF ~IsChangeState(reqs[q].resourceState)
       THEN /\ reqs' = [reqs EXCEPT ![q].pc = "finished"]
            /\ UNCHANGED pageToken
       ELSE \E fails \in BOOLEAN :
              IF fails
              THEN /\ reqs' = [reqs EXCEPT ![q].pc = "finished"]
                   /\ UNCHANGED pageToken
              ELSE LET tok == IF pageToken = NoToken THEN Len(feed) ELSE pageToken
                       page == ListChanges(feed, tok)
                   IN /\ pageToken' = tok
                      /\ reqs' = [reqs EXCEPT ![q].pc = "loop",
                                              ![q].changes = page.changes,
                                              ![q].newToken = page.newStartPageToken]
    /\ UNCHANGED <<now, drive, mirror, syncVars, build, processedChanges, timers,
                   calls, feed, retryTopic>>

(* current: the loop calls the change processor for the next change *)
BgCall(q) ==
    /\ build = "current"
    /\ reqs[q].pc = "loop"
    /\ reqs[q].changes # <<>>
    /\ LET fileId == Head(reqs[q].changes)
           changeId == MakeChangeId(fileId, now)
       IN /\ EnterProcessor(q, changeId, fileId)
          /\ reqs' = IF Admits(processedChanges, changeId)
                     THEN [reqs EXCEPT ![q].pc = "inCall"]
                     ELSE [reqs EXCEPT ![q].changes = Tail(reqs[q].changes)]
    /\ UNCHANGED <<now, drive, mirror, syncVars, build, pageToken, feed, retryTopic>>

(* current: the awaited call ends; an exception out of it ends the callback *)
BgReturn(q) ==
    /\ build = "current"
    /\ reqs[q].pc = "inCall"
    /\ FinishProcessor(q)
    /\ reqs' = IF calls'[q].pc = "thrown"
               THEN [reqs EXCEPT ![q].pc = "finished", ![q].changes = <<>>,
                                 ![q].newToken = NoToken, ![q].failed = FALSE]
               ELSE [reqs EXCEPT ![q].pc = "loop", ![q].changes = Tail(reqs[q].changes),
                                 ![q].failed = @ \/ retryTopic' # retryTopic]
    /\ UNCHANGED <<now, drive, syncVars, build, processedChanges, timers, pageToken,
                   feed>>

(* current: after the loop, setLastSyncPageToken(newStartPageToken) *)
BgCursor(q) ==
    /\ build = "current"
    /\ reqs[q].pc = "loop"
    /\ reqs[q].changes = <<>>
    /\ \E writeFails \in BOOLEAN :
         pageToken' = IF reqs[q].newToken # NoToken /\ ~writeFails
                      THEN reqs[q].newToken ELSE pageToken
    /\ reqs' = [reqs EXCEPT ![q].pc = "finished", ![q].newToken = NoToken,
                            ![q].failed = FALSE]
    /\ UNCHANGED <<now, drive, mirror, syncVars, build, processedChanges, timers,
                   calls, feed, retryTopic>>

(* earlier: the setTimeout callback: credential, files.get of the resource *)
(* id, download and upload under the file's name                           *)
BgEarlier(q) ==
    /\ build = "earlier"
    /\ reqs[q].pc = "scheduled"
    /\ \E fails \in BOOLEAN :
         LET rid == reqs[q].resourceId
         IN mirror' = IF /\ ~fails
                         /\ IsChangeState(reqs[q].resourceState)
                         /\ rid \in NodeIds
                         /\ drive[rid].parent # Nowhere
                      THEN mirror \cup {<<drive[rid].name>>}
                      ELSE mirror
    /\ reqs' = [reqs EXCEPT ![q].pc = "finished"]
    /\ UNCHANGED <<now, drive, syncVars, build, processedChanges, timers, calls,
                   pageToken, feed, retryTopic>>

(* A message of the topic as the push body's decoded data, and back *)
PushBody(rec) == [data |-> "json"] @@ rec

PushedRecord(message) == [f \in DOMAIN message \ {"data"} |-> message[f]]

(* index: the Pub/Sub handler answers after its work: 200, or 500 from its *)
(* catch block; syncSingleFile is not defined, so calling it throws.  A    *)
(* 200 acknowledges the pushed message, which then leaves the topic; after *)
(* any other answer the message stays and is pushed again.                 *)
PubSubFinish(q) ==
    /\ build = "index"
    /\ reqs[q].pc = "processing"
    /\ \E authFails \in BOOLEAN :
         LET status == IF authFails
                          \/ extractFileIdFromMessage(reqs[q].message) # Missing
                       THEN 500 ELSE 200
         IN /\ reqs' = [reqs EXCEPT ![q].pc = "closed", ![q].response = status]
            /\ retryTopic' = IF status = 200
                             THEN retryTopic \ {PushedRecord(reqs[q].message)}
                             ELSE retryTopic
    /\ UNCHANGED <<now, drive, mirror, syncVars, build, processedChanges, timers,
                   calls, pageToken, feed>>

(* A user's edit or trashing is entered in Drive's change log *)
HookModify ==
    /\ Len(feed) < MaxFeed
    /\ \E n \in NodeIds : Modify(n) /\ feed' = Append(feed, n)
    /\ UNCHANGED <<now, mirror, syncVars, build, processedChanges, timers, reqs,
                   calls, pageToken, retryTopic>>

HookTrash ==
    /\ Len(feed) < MaxFeed
    /\ \E n \in NodeIds : Trash(n) /\ feed' = Append(feed, n)
    /\ UNCHANGED <<now, mirror, syncVars, build, processedChanges, timers, reqs,
                   calls, pageToken, retryTopic>>

InitHook ==
    /\ now = EPOCH_2000 + LOOKBACK
    /\ drive = DriveAt(EPOCH_2000 + 1, FALSE)
    /\ mirror = {}
    /\ SyncIdle
    /\ build \in Builds
    /\ processedChanges = {}
    /\ timers = {}
    /\ reqs = [q \in ReqIds |-> IdleReq]
    /\ calls = [c \in CallIds |-> IdleCall]
    /\ pageToken \in {NoToken, 0}
    /\ feed = <<>>
    /\ retryTopic = {}

NextHook ==
    \/ Tick
    \/ Expire
    \/ HookModify
    \/ HookTrash
    \/ \E q \in ReqIds : Receive(q)
    \/ \E q \in ReqIds : BgList(q)
    \/ \E q \in ReqIds : BgCall(q)
    \/ \E q \in ReqIds : BgReturn(q)
    \/ \E q \in ReqIds : BgCursor(q)
    \/ \E q \in ReqIds : BgEarlier(q)
    \/ \E q \in ReqIds : PubSubFinish(q)

SpecHook == InitHook /\ [][NextHook]_vars

----------------------------------------------------------------------------
(* The change processor applied to the nodes of a two-level tree           *)
(* (specification SpecApply): the folder D holds b.txt, users trash nodes, *)
(* and the processor is called once per changed node.                      *)

(* The object name the folder walk gives a node: the names of its ancestors *)
(* below the root, then its own (prefix + item.name, part_001:283 and 290)  *)
RECURSIVE MirrorPath(_, _)
MirrorPath(d, n) ==
    IF d[n].parent \in NodeIds
    THEN Append(MirrorPath(d, d[n].parent), d[n].name)
    ELSE <<d[n].name>>

Notify(c) ==
    /\ calls[c].pc = "idle"
    /\ \A k \in CallIds : k < c => calls[k].pc # "idle"
    /\ \E n \in NodeIds :
         /\ drive[n].parent # Nowhere
         /\ EnterProcessor(c, MakeChangeId(n, now), n)
    /\ UNCHANGED <<now, drive, mirror, syncVars, build, reqs, pageToken, feed,
                   retryTopic>>

InitApply ==
    /\ now = EPOCH_2000 + LOOKBACK
    /\ drive = DriveAt(EPOCH_2000 + 1, TRUE)
    /\ mirror = {}
    /\ SyncIdle
    /\ HookIdle

NextApply ==
    \/ UserTrash
    \/ \E c \in CallIds : Notify(c)
    \/ \E c \in CallIds : CallFinishes(c)

SpecApply == InitApply /\ [][NextApply]_vars

----------------------------------------------------------------------------
(* The retry topic and its consumer (specification SpecRetry).  The only   *)
(* Pub/Sub push endpoint of the repository is the handler of index.js; the *)
(* topic holds messages the change processor has published.                *)

PublishedRetries ==
    {RetryMessage(MakeChangeId(n, t), n) :
        n \in {"f1", "d1"}, t \in EPOCH_2000..(EPOCH_2000 + LOOKBACK)}

(* Pub/Sub pushes a message of the topic to the endpoint *)
Deliver(q) ==
    /\ reqs[q].pc = "none"
    /\ \A k \in ReqIds : k < q => reqs[k].pc # "none"
    /\ \E rec \in retryTopic :
         reqs' = [reqs EXCEPT ![q] =
                    OnRequest(build, [IdleReq EXCEPT !.message = PushBody(rec)])]
    /\ UNCHANGED <<now, drive, mirror, syncVars, build, processedChanges, timers,
                   calls, pageToken, feed, retryTopic>>

InitRetry ==
    /\ now = EPOCH_2000 + LOOKBACK
    /\ drive = DriveAt(EPOCH_2000 + 1, FALSE)
    /\ mirror = {}
    /\ SyncIdle
    /\ build = "index"
    /\ processedChanges = {}
    /\ timers = {}
    /\ reqs = [q \in ReqIds |-> IdleReq]
    /\ calls = [c \in CallIds |-> IdleCall]
    /\ pageToken = NoToken
    /\ feed = <<>>
    /\ retryTopic \in SUBSET PublishedRetries
    /\ retryTopic # {}

NextRetry ==
    \/ Tick
    \/ \E q \in ReqIds : Deliver(q)
    \/ \E q \in ReqIds : PubSubFinish(q)

SpecRetry == InitRetry /\ [][NextRetry]_vars

----------------------------------------------------------------------------
(* The folder walk as a function (specification SpecWalk): the tree, the   *)
(* stored watermark and the walker's version are drawn at the start, and   *)
(* processFolderIncremental is applied to the root, as often as MaxRuns,   *)
(* over the same tree and with the same modifiedSince.                     *)

OldTime == EPOCH_2000 + 1
NewTime == EPOCH_2000 + 2

(* Where the nodes may lie: D and b.txt in the root, the others in the root, *)
(* in D or (e.txt) not in the tree; a.txt may lie in the trash, and the     *)
(* node named e.txt may be an (empty) folder inside D                        *)
WalkParents ==
    {p \in [NodeIds -> {ROOT_FOLDER_ID, "d1", Nowhere}] :
        /\ p["d1"] = ROOT_FOLDER_ID
        /\ p["f2"] = ROOT_FOLDER_ID
        /\ p["f1"] # Nowhere
        /\ p["f3"] # Nowhere
        /\ p["f4"] # ROOT_FOLDER_ID}

WalkTrees ==
    UNION {
      {[n \in NodeIds |->
          [kind |-> IF n = "d1" \/ (n = "f4" /\ sub) THEN "folder" ELSE "file",
           parent |-> p[n],
           name |-> NameOf(n),
           modifiedTime |-> t[n],
           trashed |-> (n = "f1" /\ tr)]] :
       t \in [NodeIds -> {OldTime, NewTime}], tr \in BOOLEAN,
       sub \in IF p["f4"] = "d1" THEN BOOLEAN ELSE {FALSE}} :
      p \in WalkParents}

(* The requests that may fail during one walk from the root *)
WalkFailures(d) ==
    {bad \in Failures(d, {ROOT_FOLDER_ID}) : Cardinality(bad) <= MaxFailures}

(* One call processFolderIncremental(ROOT_FOLDER_ID, "", token, lastRun) with *)
(* the value getLastSyncTime returns; the record keeps what was passed and    *)
(* what came back                                                            *)
Walk(r) ==
    /\ runs[r].pc = "idle"
    /\ \A k \in RunIds : k < r => runs[k].pc # "idle"
    /\ \E bad \in WalkFailures(drive) :
         LET since == getLastSyncTime(lastSync, FALSE)
             st == processFolderIncremental(drive, ROOT_FOLDER_ID, <<>>, since, bad)
         IN /\ mirror' = mirror \cup st.writes
            /\ runs' = [runs EXCEPT ![r] =
                          [kind |-> "walk", pc |-> "done", since |-> since,
                           bad |-> bad, stats |-> st]]
    /\ UNCHANGED <<now, drive, lastSync, hookVars>>

InitWalk ==
    /\ now = NewTime
    /\ drive \in WalkTrees
    /\ mirror = {}
    /\ lastSync \in {NoDoc, toISOString(OldTime)}
    /\ runs = [r \in RunIds |-> IdleRun]
    /\ build \in Builds
    /\ processedChanges = {}
    /\ timers = {}
    /\ reqs = [q \in ReqIds |-> IdleReq]
    /\ calls = [c \in CallIds |-> IdleCall]
    /\ pageToken = NoToken
    /\ feed = <<>>
    /\ retryTopic = {}

NextWalk == \E r \in RunIds : Walk(r)

SpecWalk == InitWalk /\ [][NextWalk]_vars

----------------------------------------------------------------------------
(* The poll alone, with every call succeeding (specification LiveSpecPoll). *)
(* The interval fires every 30 seconds, a fifth of a tick, for as long as   *)
(* the service runs; the clock starts late enough that the five-minute      *)
(* floor of modifiedSince lies before every edit.                           *)

PollStartTime == MaxTime - 1

(* The interval fires; the credential is obtained *)
PollFires(r) == StartPoll(r) /\ runs'[r].threw = "none"

(* The watermark is read and the root is listed *)
PollLists(r) ==
    /\ runs[r].kind = "poll"
    /\ ReadAndListStep(r, FALSE, {})

(* The loop over the listed items; every download and upload succeeds *)
PollWalks(r) ==
    /\ runs[r].kind = "poll"
    /\ WalkItems(r)
    /\ runs'[r].threw = "none"
    /\ runs'[r].fail = runs[r].fail

(* The watermark write succeeds *)
PollCommits(r) ==
    /\ runs[r].kind = "poll"
    /\ Commit(r)
    /\ lastSync' = runs[r].stamp

(* The callback has returned; a later firing of the interval takes its place *)
PollReturns(r) ==
    /\ runs[r].pc = "done"
    /\ runs' = [runs EXCEPT ![r] = IdleRun]
    /\ UNCHANGED <<now, drive, mirror, lastSync, hookVars>>

(* A user edits a node of the root.  The clock is coarse, so an edit made *)
(* in the tick of a new Date() that was already taken is left out: Drive  *)
(* would stamp it later than that date.                                   *)
PollModify ==
    /\ \A r \in RunIds : runs[r].pc = "commit" => parseISO(runs[r].stamp) < now
    /\ WatermarkTime(lastSync) < now
    /\ UserModify

InitPoll ==
    /\ now = PollStartTime
    /\ drive = DriveAt(EPOCH_2000 + 1, FALSE)
    /\ mirror = {}
    /\ SyncIdle
    /\ HookIdle

PollStep ==
    \/ \E r \in RunIds : PollFires(r)
    \/ \E r \in RunIds : PollLists(r)
    \/ \E r \in RunIds : PollWalks(r)
    \/ \E r \in RunIds : PollCommits(r)
    \/ \E r \in RunIds : PollReturns(r)

NextPoll ==
    \/ Tick
    \/ PollModify
    \/ PollStep

SpecPoll == InitPoll /\ [][NextPoll]_vars

(* The timer fires fairly and no started callback stalls *)
LiveSpecPoll == SpecPoll /\ WF_vars(PollStep)

----------------------------------------------------------------------------
(* The folder walk step by step (specification SpecPaged): every request of *)
(* processFolderIncremental is a step, the pages of files.list included.    *)
(* A run keeps the call stack; `entered` and `uploads` count, per node, the *)
(* recursive calls and the upload calls made.                               *)

Min(a, b) == IF a <= b THEN a ELSE b

PageOfOverlapping(all, token) ==
    SubSeq(all, IF token = 0 THEN 1 ELSE token, Min(token + ListPageSize, Len(all)))

(* The files of the page that starts after `token` entries *)
PageOf(all, token) ==
    SubSeq(all, token + 1, Min(token + ListPageSize, Len(all)))

(* data.nextPageToken || null *)
nextPageToken(all, token) ==
    IF token + ListPageSize < Len(all) THEN token + ListPageSize ELSE NoToken

(* A call processFolderIncremental(folderId, prefix, token, modifiedSince) *)
Frame(folderId, prefix) ==
    [folder |-> folderId, prefix |-> prefix, phase |-> "list",
     files |-> <<>>, token |-> 0, rest |-> <<>>, st |-> Stats0]

PagedRun(since) ==
    [kind |-> "paged", pc |-> "walking", since |-> since,
     stack |-> <<Frame(ROOT_FOLDER_ID, <<>>)>>,
     stats |-> Stats0, faults |-> 0, fetches |-> 0,
     entered |-> [n \in NodeIds |-> 0], uploads |-> [n \in NodeIds |-> 0]]

Top(run) == run.stack[Len(run.stack)]

SetTop(run, frame) == [run EXCEPT !.stack[Len(run.stack)] = frame]

(* The call on top returns st: to the caller's loop, or to the trigger *)
Return(run, st) ==
    LET depth == Len(run.stack)
    IN IF depth = 1
       THEN [run EXCEPT !.pc = "done", !.stack = <<>>, !.stats = st]
       ELSE [run EXCEPT !.stack = [SubSeq(run.stack, 1, depth - 1)
                                     EXCEPT ![depth - 1].st = AddStats(@, st)]]

(* An exception that no frame catches *)
Throw(run) ==
    [run EXCEPT !.pc = "thrown", !.stack = <<>>, !.stats = Thrown(Stats0),
                !.faults = @ + 1]

StartPaged(r) ==
    /\ runs[r].pc = "idle"
    /\ \A k \in RunIds : k < r => runs[k].pc \in {"done", "thrown"}
    /\ runs' = [runs EXCEPT ![r] = PagedRun(getLastSyncTime(lastSync, FALSE))]
    /\ UNCHANGED <<now, drive, mirror, lastSync, hookVars>>

(* One request of listFilesInFolderREST for the folder of the call on top *)
FetchPage(r) ==
    /\ runs[r].pc = "walking"
    /\ Top(runs[r]).phase = "list"
    /\ \E fails \in {f \in BOOLEAN : f => runs[r].faults < MaxFailures} :
         LET run == [runs[r] EXCEPT !.fetches = @ + 1]
             top == Top(run)
             all == ListModified(drive, top.folder, run.since)
             files == top.files \o PageOf(all, top.token)
             next == nextPageToken(all, top.token)
         IN runs' = [runs EXCEPT ![r] =
               IF fails THEN Throw(run)
               ELSE IF next # NoToken
               THEN SetTop(run, [top EXCEPT !.files = files, !.token = next])
               ELSE SetTop(run, [top EXCEPT !.files = files, !.rest = files,
                                            !.phase = IF Len(files) = 0
                                                      THEN "empty" ELSE "loop"])]
    /\ UNCHANGED <<now, drive, mirror, lastSync, hookVars>>

(* The empty-listing branch: isFolderEmpty, the placeholder upload, return *)
CheckEmpty(r) ==
    /\ runs[r].pc = "walking"
    /\ Top(runs[r]).phase = "empty"
    /\ \E bad \in {b \in SUBSET {Top(runs[r]).folder, "placeholder"} :
                    Cardinality(b) + runs[r].faults <= MaxFailures} :
         LET top == Top(runs[r])
             st == PlaceholderBranch(drive, top.folder, top.prefix, bad)
         IN /\ runs' = [runs EXCEPT ![r] =
                  IF top.folder \in bad THEN Throw(runs[r])
                  ELSE Return([runs[r] EXCEPT !.faults = @ + Cardinality(bad)], st)]
            /\ mirror' = IF top.folder \in bad THEN mirror ELSE mirror \cup st.writes
    /\ UNCHANGED <<now, drive, lastSync, hookVars>>

(* One round of the for loop: a folder item is entered, a leaf is downloaded *)
(* and uploaded; after the last item the call returns its counters          *)
LoopItem(r) ==
    /\ runs[r].pc = "walking"
    /\ Top(runs[r]).phase = "loop"
    /\ LET top == Top(runs[r])
       IN IF top.rest = <<>>
          THEN /\ runs' = [runs EXCEPT ![r] = Return(runs[r], top.st)]
               /\ UNCHANGED mirror
          ELSE LET item == Head(top.rest)
                   on == [top EXCEPT !.rest = Tail(top.rest)]
               IN IF IsFolder(drive, item)
                  THEN /\ runs' = [runs EXCEPT ![r] =
                            [SetTop(runs[r], [on EXCEPT !.st.folders = @ + 1])
                               EXCEPT !.entered[item] = @ + 1,
                                      !.stack = Append(@,
                                          Frame(item, Append(top.prefix,
                                                             drive[item].name)))]]
                       /\ UNCHANGED mirror
                  ELSE \E stage \in {g \in {"ok", "download", "upload"} :
                                       g # "ok" => runs[r].faults < MaxFailures} :
                         LET bad == IF stage = "ok" THEN {} ELSE {item}
                             st == ProcessLeaf(drive, item, top.prefix, bad)
                         IN /\ runs' = [runs EXCEPT ![r] =
                                  [SetTop(runs[r], [on EXCEPT !.st = AddStats(@, st)])
                                     EXCEPT !.uploads[item] =
                                               IF stage = "download" THEN @ ELSE @ + 1,
                                            !.faults = IF stage = "ok" THEN @ ELSE @ + 1]]
                            /\ mirror' = mirror \cup st.writes
    /\ UNCHANGED <<now, drive, lastSync, hookVars>>

(* The trees walked: every leaf newer than the watermark and none trashed *)
PagedTrees ==
    {d \in WalkTrees : \A n \in NodeIds :
        /\ ~d[n].trashed
        /\ ~IsFolder(d, n) => d[n].modifiedTime = NewTime}

InitPaged ==
    /\ now = NewTime
    /\ drive \in PagedTrees
    /\ mirror = {}
    /\ lastSync = toISOString(OldTime)
    /\ runs = [r \in RunIds |-> IdleRun]
    /\ HookIdle

PagedStep ==
    \/ \E r \in RunIds : FetchPage(r)
    \/ \E r \in RunIds : CheckEmpty(r)
    \/ \E r \in RunIds : LoopItem(r)

NextPaged ==
    \/ \E r \in RunIds : StartPaged(r)
    \/ PagedStep

SpecPaged == InitPaged /\ [][NextPaged]_vars

(* Every request is answered: a started walk goes on *)
LiveSpecPaged == SpecPaged /\ WF_vars(PagedStep)

----------------------------------------------------------------------------
(* The full resync and the sync that follows it (specification SpecFull).   *)
(* In index.js and in part_000 the watermark is the module variable         *)
(* lastSyncTime, here `lastSync`.  A run is "full" (POST /sync-full of      *)
(* index.js), "fullFn" (syncDriveToGCSFull of part_000, which resets the    *)
(* variable and calls syncDriveToGCS) or "incr" (POST /sync, syncDriveToGCS) *)

FullKinds == {"full", "fullFn"}

FullRun(kind, t) ==
    [kind |-> kind, pc |-> "auth", startedAt |-> t, since |-> DEFAULT_LAST_SYNC,
     stamp |-> DEFAULT_LAST_SYNC, stats |-> Stats0, response |-> 0]

(* The request arrives; a full resync resets the variable at once *)
StartFull(r) ==
    /\ runs[r].pc = "idle"
    /\ \A k \in RunIds : k < r => runs[k].pc # "idle"
    /\ \E kind \in FullKinds \cup {"incr"} :
         /\ runs' = [runs EXCEPT ![r] = FullRun(kind, now)]
         /\ lastSync' = IF kind \in FullKinds THEN DEFAULT_LAST_SYNC ELSE lastSync
    /\ UNCHANGED <<now, drive, mirror, hookVars>>

(* The credential is obtained; the walk's argument is read from the variable, *)
(* and syncDriveToGCS takes currentTime                                       *)
FullAuth(r) ==
    /\ runs[r].pc = "auth"
    /\ \E authFails \in BOOLEAN :
         runs' = [runs EXCEPT ![r] =
                    IF authFails
                    THEN [@ EXCEPT !.pc = "done", !.response = 500]
                    ELSE [@ EXCEPT !.pc = "walk",
                                   !.since = getLastSyncTime(lastSync, FALSE),
                                   !.stamp = toISOString(now)]]
    /\ UNCHANGED <<now, drive, mirror, lastSync, hookVars>>

(* The walk.  POST /sync-full answers after it; syncDriveToGCS goes on to *)
(* setLastSyncTime(currentTime) and answers then                          *)
FullWalk(r) ==
    /\ runs[r].pc = "walk"
    /\ \E bad \in WalkFailures(drive) :
         LET st == processFolderIncremental(drive, ROOT_FOLDER_ID, <<>>,
                                            runs[r].since, bad)
             run == [runs[r] EXCEPT !.stats = st, !.pc = "done"]
         IN /\ mirror' = mirror \cup st.writes
            /\ IF st.threw
               THEN /\ runs' = [runs EXCEPT ![r] = [run EXCEPT !.response = 500]]
                    /\ UNCHANGED lastSync
               ELSE /\ runs' = [runs EXCEPT ![r] = [run EXCEPT !.response = 200]]
                    /\ lastSync' = IF runs[r].kind = "full" THEN lastSync
                                   ELSE runs[r].stamp
    /\ UNCHANGED <<now, drive, hookVars>>

InitFull ==
    /\ now = NewTime
    /\ drive = DriveAt(OldTime, TRUE)
    /\ mirror = {}
    /\ lastSync \in {DEFAULT_LAST_SYNC, toISOString(OldTime)}
    /\ runs = [r \in RunIds |-> IdleRun]
    /\ build = "index"
    /\ processedChanges = {}
    /\ timers = {}
    /\ reqs = [q \in ReqIds |-> IdleReq]
    /\ calls = [c \in CallIds |-> IdleCall]
    /\ pageToken = NoToken
    /\ feed = <<>>
    /\ retryTopic = {}

NextFull ==
    \/ Tick
    \/ \E r \in RunIds : StartFull(r)
    \/ \E r \in RunIds : FullAuth(r)
    \/ \E r \in RunIds : FullWalk(r)

SpecFull == InitFull /\ [][NextFull]_vars

----------------------------------------------------------------------------
(* The change feed with more than one page pending at the stored cursor    *)
(* (specification LiveSpecFeed): the current webhook receives one valid    *)
(* change notification after another, and every store and Drive request of *)
(* the handler answers.                                                    *)

(* PAGE_SIZE changes of a.txt and then one of the folder D *)
PendingFeed == [i \in 1..(PAGE_SIZE + 1) |-> IF i <= PAGE_SIZE THEN "f1" ELSE "d1"]

(* A valid change notification arrives while no other is being handled *)
FeedReceive(q) ==
    /\ \A k \in ReqIds : reqs[k].pc \in {"none", "finished"}
    /\ Receive(q)
    /\ reqs'[q].pc = "scheduled"
    /\ IsChangeState(reqs'[q].resourceState)

(* getLastSyncPageToken and changes.list answer *)
FeedList(q) == BgList(q) /\ reqs'[q].pc = "loop"

(* setLastSyncPageToken succeeds when the handler calls it *)
FeedCursor(q) ==
    /\ BgCursor(q)
    /\ reqs[q].newToken # NoToken => pageToken' = reqs[q].newToken

(* The handler of the last request slot is done: later notifications take *)
(* the slots again                                                       *)
FeedDone(q) ==
    /\ reqs[q].pc = "finished"
    /\ \A k \in ReqIds : reqs[k].pc \in {"finished", "none"}
    /\ q = MaxReq
    /\ reqs' = [k \in ReqIds |-> IdleReq]
    /\ UNCHANGED <<now, drive, mirror, syncVars, build, processedChanges, timers,
                   calls, pageToken, feed, retryTopic>>

InitFeed ==
    /\ now = EPOCH_2000 + LOOKBACK
    /\ drive = DriveAt(EPOCH_2000 + 1, FALSE)
    /\ mirror = {}
    /\ SyncIdle
    /\ build = "current"
    /\ processedChanges = {}
    /\ timers = {}
    /\ reqs = [q \in ReqIds |-> IdleReq]
    /\ calls = [c \in CallIds |-> IdleCall]
    /\ pageToken = 0
    /\ feed = PendingFeed
    /\ retryTopic = {}

FeedStep ==
    \/ \E q \in ReqIds : FeedReceive(q)
    \/ \E q \in ReqIds : FeedList(q)
    \/ \E q \in ReqIds : BgCall(q)
    \/ \E q \in ReqIds : BgReturn(q)
    \/ \E q \in ReqIds : FeedCursor(q)
    \/ \E q \in ReqIds : FeedDone(q)

NextFeed ==
    \/ Tick
    \/ Expire
    \/ FeedStep

SpecFeed == InitFeed /\ [][NextFeed]_vars

(* Notifications keep arriving and the handler's steps are taken *)
LiveSpecFeed == SpecFeed /\ WF_vars(FeedStep)

----------------------------------------------------------------------------
(* Properties of the watermark (specification Spec) *)

Max(a, b) == IF a >= b THEN a ELSE b

(* Run r finishes its setLastSyncTime call in this step *)
Commits(r) == runs[r].pc = "commit" /\ runs'[r].pc = "done"

(* C1: every write to the persisted watermark stores a value greater than or *)
(* equal to the value it replaces, under any interleaving of manual syncs    *)
(* and poll runs.                                                            *)
C1_WatermarkMonotone ==
    [][WatermarkTime(lastSync') >= WatermarkTime(lastSync)]_vars

(* C2: when the walk's own listing of the root fails, the trigger ends failed *)
(* (the manual route answers 500) without touching the watermark; the         *)
(* watermark changes only in the commit step, which follows the walk's return.*)
C2_RootListingFailure ==
    /\ [](\A r \in RunIds : runs[r].threw = "list" =>
             /\ runs[r].pc = "done"
             /\ runs[r].response = IF runs[r].kind = "manual" THEN 500 ELSE 0)
    /\ [][/\ \A r \in RunIds : runs'[r].threw = "list" /\ runs[r].threw # "list"
                                  => lastSync' = lastSync
          /\ lastSync' # lastSync =>
                \E r \in RunIds : Commits(r) /\ runs[r].threw = "none"]_vars

C2_Witness ==
    /\ lastSync # NoDoc
    /\ \E r \in RunIds : /\ runs[r].kind = "manual"
                         /\ runs[r].threw = "list"
                         /\ runs[r].response = 500

(* C3: the timestamp a poll run is about to persist is the time captured *)
(* before its walk started.                                              *)
C3_PollStampIsStartTime ==
    \A r \in RunIds : runs[r].kind = "poll" /\ runs[r].pc = "commit"
                         => runs[r].stamp = toISOString(runs[r].readAt)

(* C4: a poll run whose walk returned ok = 0 never reaches the commit step, *)
(* and the watermark is only ever changed by a commit step.                 *)
C4_PollZeroOkKeepsWatermark ==
    /\ [](\A r \in RunIds : runs[r].kind = "poll" /\ runs[r].pc = "commit"
                               => runs[r].ok > 0)
    /\ [][lastSync' # lastSync => \E r \in RunIds : Commits(r)]_vars

C4_Witness ==
    \E r \in RunIds : /\ runs[r].kind = "poll"
                      /\ runs[r].pc = "done"
                      /\ runs[r].threw = "none"
                      /\ runs[r].ok = 0
                      /\ runs[r].fail > 0

(* A poll run passes from reading the watermark to its walk in this step *)
PollComputesSince(r) ==
    /\ runs[r].kind = "poll"
    /\ runs[r].pc = "read"
    /\ runs'[r].pc \in {"items", "commit"}

----------------------------------------------------------------------------
(* Properties of the change de-duplication (SpecDedup, LiveSpecDedup) *)

Admitted(c) == calls[c].pc \in {"running", "returned", "thrown"}

(* C6: a change id admitted at time T is rejected by every call in           *)
(* [T, T + CHANGE_TTL) and admitted again by a call after T + CHANGE_TTL:    *)
(* two admissions of one id lie at least CHANGE_TTL apart, a rejected call   *)
(* lies within CHANGE_TTL of an admission of its id, and a rejected call     *)
(* leaves no processing behind.                                              *)
C6_DedupWindow ==
    /\ \A c1, c2 \in CallIds :
          /\ c1 # c2 /\ Admitted(c1) /\ Admitted(c2)
          /\ calls[c1].changeId = calls[c2].changeId
          /\ calls[c1].at <= calls[c2].at
          => calls[c2].at >= calls[c1].at + CHANGE_TTL
    /\ \A c2 \in CallIds : calls[c2].pc = "skipped" =>
          \E c1 \in CallIds : /\ Admitted(c1)
                              /\ calls[c1].changeId = calls[c2].changeId
                              /\ calls[c1].at <= calls[c2].at
                              /\ calls[c2].at <= calls[c1].at + CHANGE_TTL
    /\ \A id \in processedChanges :
          \E c \in CallIds : /\ Admitted(c) /\ calls[c].changeId = id
                             /\ now <= calls[c].at + CHANGE_TTL

(* One id: admitted, then rejected within the window, then admitted again *)
C6_Witness ==
    \E c1, c2, c3 \in CallIds :
       /\ calls[c1].changeId = calls[c2].changeId
       /\ calls[c2].changeId = calls[c3].changeId
       /\ Admitted(c1) /\ calls[c2].pc = "skipped" /\ Admitted(c3)
       /\ calls[c1].at < calls[c2].at
       /\ calls[c2].at < calls[c1].at + CHANGE_TTL
       /\ calls[c3].at > calls[c1].at + CHANGE_TTL

(* C8: every change id in the set is eventually removed from it, whatever *)
(* becomes of its processing.                                             *)
C8_SignatureEventuallyRemoved ==
    \A id \in DedupIds : (id \in processedChanges) ~> (id \notin processedChanges)

(* An id has expired while its processing is still in progress, another *)
(* after its processing failed                                          *)
C8_Witness ==
    /\ \E c \in CallIds : /\ calls[c].pc = "running"
                          /\ calls[c].changeId \notin processedChanges
    /\ \E c \in CallIds : /\ calls[c].pc = "thrown"
                          /\ calls[c].changeId \notin processedChanges

----------------------------------------------------------------------------
(* Properties of the webhook (specification SpecHook) *)

(* C7: two change signals for one node within the de-duplication window are *)
(* processed at most once: the set never holds two ids of the same node.    *)
C7_OneAdmissionPerNodeInWindow ==
    \A a, b \in processedChanges : a[1] = b[1] => a = b

(* C9: once a valid notification has arrived, its acknowledgement has been *)
(* sent, so no processing step runs before it and no outcome changes it.   *)
C9_AckBeforeProcessing ==
    \A q \in ReqIds :
       reqs[q].pc # "none" /\ IsValidNotification(reqs[q]) => reqs[q].response = 200

(* C10: a notification without resource id or resource state is answered *)
(* with an error and no background work is scheduled for it.             *)
C10_InvalidRejectedAtBoundary ==
    \A q \in ReqIds :
       reqs[q].pc # "none" /\ ~IsValidNotification(reqs[q])
          => reqs[q].response = 400 /\ reqs[q].pc = "closed"

(* Request q has been routed by its state tag: a change state went to the *)
(* background change processing, any other state to no processing at all *)
DispatchedByState(req) ==
    IF IsChangeState(req.resourceState)
    THEN req.pc \in {"scheduled", "loop", "inCall", "finished"}
    ELSE req.pc \in {"scheduled", "finished"}

(* C28: every request that arrived with the Drive headers is routed by its *)
(* state tag by the one handler that serves it, and the response a request *)
(* has received is never followed by another.                              *)
C28_SingleStateDispatch ==
    /\ [](\A q \in ReqIds :
            reqs[q].pc # "none" /\ IsValidNotification(reqs[q])
              => DispatchedByState(reqs[q]))
    /\ [][\A q \in ReqIds :
            reqs[q].response # 0 => reqs'[q].response = reqs[q].response]_vars

----------------------------------------------------------------------------
(* Properties of the change processor's effects (specification SpecApply) *)

(* Call c of the processor ends in this step *)
FinishesCall(c) ==
    calls[c].pc = "running" /\ calls'[c].pc \in {"returned", "thrown"}

(* C11: a call for a trashed node writes nothing; either it removes the    *)
(* object at the node's mirror name (a name that is not there counts as    *)
(* removed) and no retry is published, or it fails and the failure goes to *)
(* the catch block.                                                        *)
C11_TrashedNodeDeleted ==
    [][\A c \in CallIds :
         LET f == calls[c].fileId
         IN FinishesCall(c) /\ drive[f].trashed
              => \/ /\ mirror' = mirror \ {MirrorPath(drive, f)}
                    /\ retryTopic' = retryTopic
                    /\ calls'[c].pc = "returned"
                 \/ /\ mirror' = mirror
                    /\ retryTopic' # retryTopic \/ calls'[c].pc = "thrown"]_vars

(* C12: a failure while a change is processed puts a retry message on the *)
(* topic.  Read from the states: a call for a node that is not trashed    *)
(* which returns without a new retry message has applied the change, i.e. *)
(* the bucket holds what a run without failures leaves in it.             *)
C12_FailureEnqueuesRetry ==
    [][\A c \in CallIds :
         LET f == calls[c].fileId
         IN /\ FinishesCall(c)
            /\ ~drive[f].trashed
            /\ calls'[c].pc = "returned"
            /\ retryTopic' = retryTopic
            => mirror' = ApplyChange(drive, mirror, f, FALSE, {}).bucket]_vars

----------------------------------------------------------------------------
(* Properties of the retry path (specification SpecRetry) *)

(* C13: when the consumer has handled a delivered retry message, that      *)
(* message is no longer on the topic, and a message put there in its place *)
(* is for the same change with the attempt count one higher.               *)
C13_RetriesBounded ==
    [][\A q \in ReqIds :
         reqs[q].pc = "processing" /\ reqs'[q].pc = "closed"
           => LET rec == PushedRecord(reqs[q].message)
              IN /\ rec \notin retryTopic'
                 /\ \A m \in retryTopic' \ retryTopic :
                      /\ m.changeId = rec.changeId
                      /\ m.retryCount = rec.retryCount + 1]_vars

----------------------------------------------------------------------------
(* Further properties of the webhook (specification SpecHook) *)

(* C14: whatever happens to the retry publication, the awaited call of the *)
(* change processor returns to the handler's loop, which goes on with the  *)
(* rest of the batch and keeps the cursor it is going to store.            *)
C14_EnqueueFailsOpen ==
    [][\A q \in ReqIds :
         reqs[q].pc = "inCall" /\ reqs'[q].pc # "inCall"
           => /\ calls'[q].pc = "returned"
              /\ reqs'[q].pc = "loop"
              /\ reqs'[q].changes = Tail(reqs[q].changes)
              /\ reqs'[q].newToken = reqs[q].newToken]_vars

(* C15: the handler stores a new cursor only when every change of its batch *)
(* was applied: a handler one of whose changes failed leaves the cursor as  *)
(* it is.                                                                   *)
C15_CursorAfterSuccessfulBatch ==
    [][\A q \in ReqIds :
         reqs[q].pc = "loop" /\ reqs'[q].pc = "finished" /\ reqs[q].failed
           => pageToken' = pageToken]_vars

(* A Drive notification with both headers whose state is none of add, *)
(* update and change                                                   *)
OtherState(req) ==
    /\ IsValidNotification(req)
    /\ req.resourceState \notin {"add", "update", "change"}

(* C35: a valid notification whose state is none of add, update and change *)
(* is answered 200, and no step of its handler touches the cursor, the set *)
(* of processed changes and its timers, the bucket, the retry topic or the *)
(* change processor.                                                       *)
C35_OtherStateNoEffect ==
    /\ [](\A q \in ReqIds :
            reqs[q].pc # "none" /\ OtherState(reqs[q])
              => reqs[q].response = 200 /\ reqs[q].changes = <<>>)
    /\ [][\A q \in ReqIds :
            reqs'[q] # reqs[q] /\ OtherState(reqs'[q])
              => /\ pageToken' = pageToken
                 /\ processedChanges' = processedChanges
                 /\ timers' = timers
                 /\ mirror' = mirror
                 /\ retryTopic' = retryTopic
                 /\ calls' = calls]_vars

(* The current handler is done with a notification of state sync while a *)
(* change is pending in the feed: nothing was listed, stored or written  *)
C35_Witness ==
    \E q \in ReqIds :
       /\ build = "current"
       /\ OtherState(reqs[q])
       /\ reqs[q].pc = "finished"
       /\ Len(feed) > 0
       /\ pageToken = NoToken
       /\ processedChanges = {}
       /\ mirror = {}

----------------------------------------------------------------------------
(* Properties of the folder walk (specification SpecWalk) *)

WalkDone(r) == runs[r].pc = "done" /\ runs[r].kind = "walk"

Elems(seq) == {seq[i] : i \in 1..Len(seq)}

(* The outcome counters of a walk *)
Counts(st) == <<st.ok, st.fail, st.folders>>

(* The root's filtered listing of walk r *)
RootItems(r) == ListModified(drive, ROOT_FOLDER_ID, runs[r].since)

(* The root's listing of walk r answered, has leaves only, and exactly one *)
(* of them fails                                                           *)
OneLevelOneFailure(r) ==
    /\ WalkDone(r)
    /\ ROOT_FOLDER_ID \notin runs[r].bad
    /\ \A n \in Elems(RootItems(r)) : ~IsFolder(drive, n)
    /\ Cardinality(runs[r].bad \cap Elems(RootItems(r))) = 1

(* C16: in a walk of a folder whose filtered listing holds N leaves of which *)
(* exactly one fails, the walk does not throw, writes every other leaf, and  *)
(* returns ok = N - 1 and fail = 1.                                          *)
C16_PartialFailureIsolation ==
    \A r \in RunIds :
       OneLevelOneFailure(r)
         => /\ ~runs[r].stats.threw
            /\ Counts(runs[r].stats) = <<Len(RootItems(r)) - 1, 1, 0>>
            /\ runs[r].stats.writes =
                  {<<LeafObjectName(drive[n].name)>> :
                      n \in Elems(RootItems(r)) \ runs[r].bad}

(* Three leaves were listed and the second one failed *)
C16_Witness ==
    \E r \in RunIds :
       /\ OneLevelOneFailure(r)
       /\ Len(RootItems(r)) = 3
       /\ RootItems(r)[2] \in runs[r].bad
       /\ Cardinality(mirror) = 2

(* The folders of the tree without a child, the root included *)
EmptyFolders ==
    {e \in {ROOT_FOLDER_ID} \cup {n \in NodeIds : IsFolder(drive, n)
                                                  /\ drive[n].parent # Nowhere} :
        isFolderEmpty(drive, e)}

FolderPrefix(e) == IF e = ROOT_FOLDER_ID THEN <<>> ELSE MirrorPath(drive, e)

(* C17: with the inputs of any walk made, the walk of a folder without      *)
(* children whose listing answers returns {ok: 1, fail: 0, folders: 0} and  *)
(* writes the one object prefix + "__placeholder", or returns {ok: 0,       *)
(* fail: 1, folders: 0} and writes nothing when that upload fails; a root   *)
(* walk that came to a listed empty folder has written its placeholder.     *)
C17_EmptyFolderPlaceholder ==
    \A r \in RunIds : \A e \in EmptyFolders :
       WalkDone(r) /\ e \notin runs[r].bad
         => LET pre == FolderPrefix(e)
                st == processFolderIncremental(drive, e, pre, runs[r].since,
                                               runs[r].bad)
                key == Append(pre, "__placeholder")
            IN /\ ~st.threw
               /\ IF "placeholder" \in runs[r].bad
                  THEN Counts(st) = <<0, 1, 0>> /\ st.writes = {}
                  ELSE Counts(st) = <<1, 0, 0>> /\ st.writes = {key}
               /\ (e \in Elems(RootItems(r)) /\ ~runs[r].stats.threw
                     => (key \in runs[r].stats.writes) = ("placeholder" \notin runs[r].bad))

(* A root walk recursed into the empty folder D and wrote D/__placeholder *)
C17_Witness ==
    \E r \in RunIds :
       /\ WalkDone(r)
       /\ "d1" \in EmptyFolders
       /\ "d1" \in Elems(RootItems(r))
       /\ runs[r].bad = {}
       /\ <<"D", "__placeholder">> \in mirror
       /\ runs[r].stats.folders = 1

(* The objects of a walk that are not folder placeholders *)
LeafWrites(st) == {w \in st.writes : w[Len(w)] # "__placeholder"}

(* C18: of two walks over the same tree with the same modifiedSince, none *)
(* of whose requests failed, the second writes no leaf object and its ok  *)
(* counts placeholders only.                                              *)
C18_SecondWalkWritesNothing ==
    \A r1, r2 \in RunIds :
       /\ r1 < r2
       /\ WalkDone(r1) /\ WalkDone(r2)
       /\ runs[r1].since = runs[r2].since
       /\ runs[r1].bad = {} /\ runs[r2].bad = {}
       => /\ LeafWrites(runs[r2].stats) = {}
          /\ runs[r2].stats.ok = Cardinality(runs[r2].stats.writes)

(* The tree of the scenario: the folder D, not newer than the watermark, *)
(* holds three leaves, none newer; b.txt in the root is newer            *)
ScenarioTree(since) ==
    /\ \A n \in {"f1", "f3", "f4"} :
          drive[n].parent = "d1" /\ drive[n].modifiedTime <= parseISO(since)
    /\ drive["d1"].parent = ROOT_FOLDER_ID
    /\ drive["d1"].modifiedTime <= parseISO(since)
    /\ drive["f2"].parent = ROOT_FOLDER_ID
    /\ drive["f2"].modifiedTime > parseISO(since)

(* C19: over the scenario's tree a root walk without failures writes exactly *)
(* the object b.txt, does not enter D, and returns {ok: 1, fail: 0,          *)
(* folders: 0}.                                                              *)
C19_ScenarioOneChangedLeaf ==
    \A r \in RunIds :
       WalkDone(r) /\ runs[r].bad = {} /\ ScenarioTree(runs[r].since)
         => /\ runs[r].stats.writes = {<<"b.txt">>}
            /\ Counts(runs[r].stats) = <<1, 0, 0>>
            /\ ~runs[r].stats.threw

----------------------------------------------------------------------------
(* The object names of the webhook path (specification SpecApply) *)

(* C20: the object a call of the change processor writes or deletes for a *)
(* leaf is the one the folder walk names from the leaf's ancestors: no    *)
(* object of another name appears or disappears.                          *)
C20_MirrorPathDeterminism ==
    [][\A c \in CallIds :
         LET f == calls[c].fileId
         IN FinishesCall(c) /\ ~IsFolder(drive, f)
              => (mirror' \ mirror) \cup (mirror \ mirror')
                    \subseteq {MirrorPath(drive, f)}]_vars

----------------------------------------------------------------------------
(* Further properties of the folder walk (specification SpecWalk) *)

(* C21: a walk whose own listing answered returns stats: the listing error *)
(* of a folder below is counted in fail and the folder's siblings are      *)
(* still processed.                                                        *)
C21_DescendantListingErrorCounted ==
    \A r \in RunIds :
       WalkDone(r) /\ ROOT_FOLDER_ID \notin runs[r].bad
         => /\ ~runs[r].stats.threw
            /\ \A n \in Elems(RootItems(r)) :
                  IF IsFolder(drive, n)
                  THEN n \in runs[r].bad => runs[r].stats.fail >= 1
                  ELSE n \notin runs[r].bad
                         => <<LeafObjectName(drive[n].name)>> \in runs[r].stats.writes

(* The folders of the tree, the root included *)
TreeFolders ==
    {ROOT_FOLDER_ID} \cup
    {n \in NodeIds : IsFolder(drive, n) /\ drive[n].parent # Nowhere}

(* Folder e has children, none of them in its filtered listing *)
InSync(e, since) ==
    /\ Len(ListModified(drive, e, since)) = 0
    /\ \E n \in NodeIds : drive[n].parent = e /\ ~drive[n].trashed

(* Object name w lies under the prefix pre *)
HasPrefix(w, pre) ==
    Len(w) > Len(pre) /\ SubSeq(w, 1, Len(pre)) = pre

(* C25: the walk of a folder that has children, none of them in its       *)
(* filtered listing, returns {ok: 0, fail: 0, folders: 0} and writes      *)
(* nothing, no placeholder either; a root walk made over such a tree has  *)
(* put no object under the folder's prefix.                               *)
C25_InSyncFolderUntouched ==
    \A r \in RunIds : \A e \in TreeFolders :
       WalkDone(r) /\ e \notin runs[r].bad /\ InSync(e, runs[r].since)
         => LET st == processFolderIncremental(drive, e, FolderPrefix(e),
                                               runs[r].since, runs[r].bad)
            IN /\ ~st.threw
               /\ Counts(st) = <<0, 0, 0>>
               /\ st.writes = {}
               /\ \A w \in runs[r].stats.writes : ~HasPrefix(w, FolderPrefix(e))
               /\ e = ROOT_FOLDER_ID => runs[r].stats = Stats0

(* A walk without failures found nothing newer in the root, which has *)
(* three children or more: the bucket is as it was                     *)
C25_Witness ==
    \E r \in RunIds :
       /\ WalkDone(r)
       /\ runs[r].bad = {}
       /\ InSync(ROOT_FOLDER_ID, runs[r].since)
       /\ Cardinality(Elems(ListAll(drive, ROOT_FOLDER_ID))) >= 3
       /\ runs[r].stats = Stats0
       /\ mirror = {}

(* Node n is in the filtered listing of its parent *)
Listed(n, since) ==
    ~drive[n].trashed /\ drive[n].modifiedTime > parseISO(since)

(* The folders a walk from the root lists: the root, and the listed folders *)
(* of a folder it lists                                                     *)
RECURSIVE VisitedFolders(_, _)
VisitedFolders(E, since) ==
    LET more == E \cup {n \in NodeIds : /\ IsFolder(drive, n)
                                         /\ drive[n].parent \in E
                                         /\ Listed(n, since)}
    IN IF more = E THEN E ELSE VisitedFolders(more, since)

(* The leaves in the listings of those folders *)
ListedLeaves(since) ==
    {n \in NodeIds : /\ ~IsFolder(drive, n)
                     /\ drive[n].parent \in VisitedFolders({ROOT_FOLDER_ID}, since)
                     /\ Listed(n, since)}

(* The visited folders without a child: a placeholder upload is attempted *)
PlaceholderAttempts(since) ==
    {e \in VisitedFolders({ROOT_FOLDER_ID}, since) :
        \A n \in NodeIds : drive[n].parent = e => drive[n].trashed}

(* C27: for a walk that returns, ok + fail is the number of listed leaves  *)
(* over all visited folders plus the number of placeholder attempts, ok is *)
(* the number of objects written, fail the number of failed transfers, and *)
(* folders the number of folders entered below the root.                   *)
C27_StatsAccounting ==
    \A r \in RunIds :
       WalkDone(r) /\ ~runs[r].stats.threw
         => LET st == runs[r].stats
                leaves == ListedLeaves(runs[r].since)
                holders == PlaceholderAttempts(runs[r].since)
                visited == VisitedFolders({ROOT_FOLDER_ID}, runs[r].since)
            IN /\ st.ok + st.fail = Cardinality(leaves) + Cardinality(holders)
               /\ st.ok = Cardinality(st.writes)
               /\ st.fail = Cardinality(leaves \cap runs[r].bad)
                             + (IF "placeholder" \in runs[r].bad
                                THEN Cardinality(holders) ELSE 0)
               /\ st.failed = leaves \cap runs[r].bad
               /\ st.folders = Cardinality(visited) - 1

(* A walk entered D and the folder inside D, wrote two objects or more and *)
(* counted one failed leaf                                                 *)
C27_Witness ==
    \E r \in RunIds :
       /\ WalkDone(r) /\ ~runs[r].stats.threw
       /\ runs[r].stats.folders = 2
       /\ runs[r].stats.ok >= 2
       /\ runs[r].stats.fail = 1
       /\ Cardinality(runs[r].stats.writes) = runs[r].stats.ok

(* Object w is the content of a listed leaf: not trashed, newer than since *)
IsLeafWrite(w, since) ==
    \E n \in NodeIds :
       /\ ~IsFolder(drive, n)
       /\ drive[n].parent # Nowhere
       /\ Listed(n, since)
       /\ w = Append(FolderPrefix(drive[n].parent), LeafObjectName(drive[n].name))

(* Object w is the placeholder of a folder of E *)
IsPlaceholderOf(w, E) ==
    \E e \in E : w = Append(FolderPrefix(e), "__placeholder")

(* The folders without a child outside the trash, and those without any *)
NoLiveChild == {e \in TreeFolders : \A n \in NodeIds : drive[n].parent = e
                                                       => drive[n].trashed}

NoChild == {e \in TreeFolders : \A n \in NodeIds : drive[n].parent # e}

C30_UnchangedFolderNotEntered ==
    \A r \in RunIds :
       WalkDone(r)
         => \A e \in TreeFolders \ {ROOT_FOLDER_ID} :
               ~Listed(e, runs[r].since)
                 => \A w \in runs[r].stats.writes : ~HasPrefix(w, FolderPrefix(e))

(* D is not newer than since and holds a leaf that is; a walk without *)
(* failures wrote a leaf of the root and nothing under D              *)
C30_Witness ==
    \E r \in RunIds :
       /\ WalkDone(r) /\ runs[r].bad = {}
       /\ drive["d1"].modifiedTime <= parseISO(runs[r].since)
       /\ drive["f3"].parent = "d1"
       /\ drive["f3"].modifiedTime > parseISO(runs[r].since)
       /\ runs[r].stats.ok >= 1
       /\ runs[r].stats.folders = 0
       /\ <<"D", LeafObjectName(drive["f3"].name)>> \notin mirror

----------------------------------------------------------------------------
(* Further properties of the sync triggers (specification Spec) *)

(* C22: a run in which leaves failed does not move the watermark to or   *)
(* past the modification time of one of them, so that a later poll, which *)
(* lists modifiedTime > watermark, lists the failed leaf again.           *)
C22_FailedLeafListedAgain ==
    [][\A r \in RunIds :
          Commits(r) /\ lastSync' # lastSync
            => \A n \in runs[r].failed :
                  WatermarkTime(lastSync') < drive[n].modifiedTime]_vars

(* Run r, started by the poll, takes a step that changes the bucket *)
PollWrites(r) ==
    /\ runs[r].kind = "poll"
    /\ runs'[r] # runs[r]
    /\ mirror' # mirror

(* C26: when a poll run writes to the bucket, the deduplicator has admitted *)
(* a change id before: the set of processed changes holds an id of a node.  *)
C26_PollWritesAdmitted ==
    [][\A r \in RunIds :
          PollWrites(r) => \E id \in processedChanges : id[1] \in NodeIds]_vars

(* The walk of the manual run r returns in this step without an error *)
ManualWalkReturns(r) ==
    /\ runs[r].kind = "manual"
    /\ runs[r].pc \in {"read", "items"}
    /\ runs'[r].pc \notin {"read", "items"}
    /\ runs'[r].threw = "none"

(* C32: a manual run whose walk returns goes on to write the time it took  *)
(* before the walk, whatever the counters are; the write stores that time  *)
(* (or fails and stores nothing) and the route answers 200; under the      *)
(* stored time the root's listing leaves out every leaf that failed in the *)
(* run and was not edited after that time.                                 *)
C32_ManualCommitsWhateverStats ==
    [][\A r \in RunIds :
          /\ ManualWalkReturns(r)
               => /\ runs'[r].pc = "commit"
                  /\ runs'[r].stamp = IF runs[r].pc = "read" THEN toISOString(now)
                                      ELSE runs[r].stamp
          /\ Commits(r) /\ runs[r].kind = "manual"
               => /\ lastSync' \in {runs[r].stamp, lastSync}
                  /\ runs'[r].response = 200
                  /\ lastSync' = runs[r].stamp
                       => \A n \in runs[r].failed :
                             drive[n].modifiedTime <= parseISO(runs[r].stamp)
                               => n \notin Elems(ListModified(drive', ROOT_FOLDER_ID,
                                                getLastSyncTime(lastSync', FALSE)))]_vars

(* A manual run that wrote nothing and counted a failed leaf has answered *)
(* 200, and the watermark it stored hides the leaf from the next listing  *)
C32_Witness ==
    \E r \in RunIds :
       /\ runs[r].kind = "manual" /\ runs[r].pc = "done"
       /\ runs[r].response = 200
       /\ runs[r].ok = 0 /\ runs[r].fail >= 1
       /\ mirror = {}
       /\ lastSync # NoDoc
       /\ ~drive["f1"].trashed
       /\ "f1" \notin Elems(ListModified(drive, ROOT_FOLDER_ID,
                                         getLastSyncTime(lastSync, FALSE)))

(* The poll runs whose callback has started and not yet ended *)
PollsInProgress ==
    {r \in RunIds : runs[r].kind = "poll" /\ runs[r].pc \in {"read", "items", "commit"}}

(* C36: at no time are two poll runs in progress: a poll callback starts *)
(* only after the one before it has ended.                               *)
C36_PollRunsDoNotOverlap ==
    Cardinality(PollsInProgress) <= 1

(* The manual run r passes from reading the watermark to its walk *)
ManualReads(r) ==
    /\ runs[r].kind = "manual"
    /\ runs[r].pc = "read"
    /\ runs'[r].pc \in {"items", "commit"}

(* C37: a failed read of the watermark yields the floor 2000-01-01 and the *)
(* run walks with it: no run ends because of the watermark store; a failed *)
(* write leaves the document as it was, and the manual run answers 200     *)
(* with its counters whether the write worked or not.                      *)
C37_StoreFailuresSwallowed ==
    /\ [](/\ getLastSyncTime(lastSync, TRUE) = toISOString(EPOCH_2000)
          /\ \A r \in RunIds :
                /\ runs[r].threw \in {"none", "auth", "list", "sublist"}
                /\ runs[r].pc = "commit"
                     => setLastSyncTime(lastSync, runs[r].stamp, TRUE) = lastSync)
    /\ [][\A r \in RunIds :
            /\ ManualReads(r)
                 => runs'[r].since \in {getLastSyncTime(lastSync, FALSE),
                                        toISOString(EPOCH_2000)}
            /\ Commits(r) /\ runs[r].kind = "manual"
                 => /\ lastSync' \in {setLastSyncTime(lastSync, runs[r].stamp, TRUE),
                                       setLastSyncTime(lastSync, runs[r].stamp, FALSE)}
                    /\ runs'[r].response = 200
                    /\ runs'[r].threw = "none"
                    /\ <<runs'[r].ok, runs'[r].fail, runs'[r].folders>>
                          = <<runs[r].ok, runs[r].fail, runs[r].folders>>]_vars

(* A manual run wrote an object and answered 200, and no watermark document *)
(* exists: its write failed                                                 *)
C37_Witness ==
    \E r \in RunIds :
       /\ runs[r].kind = "manual" /\ runs[r].pc = "done"
       /\ runs[r].response = 200
       /\ runs[r].ok >= 1
       /\ mirror # {}
       /\ lastSync = NoDoc
       /\ \A k \in RunIds \ {r} : runs[k].pc = "idle"

----------------------------------------------------------------------------
(* The poll as a backstop (specification LiveSpecPoll) *)

(* The leaves the root holds in this specification *)
RootLeaves ==
    LET d == DriveAt(EPOCH_2000 + 1, FALSE)
    IN {n \in NodeIds : ~IsFolder(d, n) /\ d[n].parent = ROOT_FOLDER_ID}

(* Leaf n lies in the root, not trashed, and was edited while the service ran *)
EditedRootLeaf(n) ==
    /\ drive[n].parent = ROOT_FOLDER_ID
    /\ ~drive[n].trashed
    /\ drive[n].modifiedTime >= PollStartTime

(* C23: with the poll firing fairly and every call succeeding, a leaf of the *)
(* root that is edited is eventually written to the mirror by a poll run,    *)
(* also when the edit falls between the listing and the watermark write of   *)
(* a run in progress.                                                        *)
C23_PollBackstop ==
    \A n \in RootLeaves :
       EditedRootLeaf(n) ~> (<<LeafObjectName(drive[n].name)>> \in mirror)

----------------------------------------------------------------------------
(* The change processor's try block (specification SpecApply) *)

(* The non-trashed leaves that lie directly in folder e *)
LeavesIn(d, e) ==
    {n \in NodeIds : d[n].parent = e /\ ~IsFolder(d, n) /\ ~d[n].trashed}

(* C24: for a change whose node is a folder that is not trashed, the       *)
(* processor's result is that of the walk rooted at the node with since =  *)
(* the epoch, so every non-trashed leaf of the folder whose transfer works *)
(* is in the bucket afterwards, whatever its modification time; for a leaf *)
(* the only write is the leaf's own object.                                *)
C24_FolderChangeWalksFromEpoch ==
    \A e \in NodeIds :
       drive[e].parent # Nowhere /\ ~drive[e].trashed
         => \A bad \in Failures(drive, {e}) :
               LET res == ApplyChange(drive, mirror, e, FALSE, bad)
                   st == processFolderIncremental(drive, e, <<drive[e].name>>,
                                                  toISOString(EPOCH_1970), bad)
               IN IF IsFolder(drive, e)
                  THEN /\ res = [threw |-> st.threw, bucket |-> mirror \cup st.writes]
                       /\ e \notin bad
                            => \A n \in LeavesIn(drive, e) \ bad :
                                  <<drive[e].name, drive[n].name>> \in res.bucket
                  ELSE res = IF e \in bad
                             THEN [threw |-> TRUE, bucket |-> mirror]
                             ELSE [threw |-> FALSE,
                                   bucket |-> mirror \cup {<<drive[e].name>>}]

(* A call for the folder D has returned and D's leaf is in the bucket, and a *)
(* call for the leaf a.txt has returned and its object is in the bucket      *)
C24_Witness ==
    /\ ~drive["d1"].trashed /\ ~drive["f2"].trashed /\ ~drive["f1"].trashed
    /\ \E c \in CallIds :
          calls[c].pc = "returned" /\ calls[c].fileId = "d1"
    /\ \E c \in CallIds :
          calls[c].pc = "returned" /\ calls[c].fileId = "f1"
    /\ mirror = {<<"D", "b.txt">>, <<"a.txt">>}

----------------------------------------------------------------------------
(* Properties of the walk's steps (specification LiveSpecPaged) *)

PagedRuns == {r \in RunIds : runs[r].kind = "paged"}

(* The folders below the root that a walk from the root lists *)
ListedFolders(since) == VisitedFolders({ROOT_FOLDER_ID}, since) \ {ROOT_FOLDER_ID}

(* C31: a walk ends: it returns its counters unless a listing request was *)
(* refused; during the walk no folder is entered twice and no leaf is     *)
(* uploaded twice, and a walk that returned has entered every listed      *)
(* folder once and has the counters of the walk function.                 *)
C31_WalkTerminatesOncePerItem ==
    /\ \A r \in RunIds :
          (runs[r].pc = "walking") ~> (runs[r].pc \in {"done", "thrown"})
    /\ [](\A r \in PagedRuns :
            /\ runs[r].pc = "thrown" => runs[r].faults >= 1
            /\ \A n \in NodeIds : runs[r].entered[n] <= 1 /\ runs[r].uploads[n] <= 1
            /\ runs[r].pc = "done"
                 => /\ \A n \in NodeIds :
                          runs[r].entered[n] =
                             IF n \in ListedFolders(runs[r].since) THEN 1 ELSE 0
                    /\ runs[r].faults = 0
                         => runs[r].stats =
                               processFolderIncremental(drive, ROOT_FOLDER_ID, <<>>,
                                                        runs[r].since, {}))

(* A walk returned after listing a folder in more than one page, entering *)
(* D and the folder inside D, and uploading three leaves once each        *)
C31_Witness ==
    \E r \in PagedRuns :
       /\ runs[r].pc = "done"
       /\ runs[r].faults = 0
       /\ runs[r].entered["d1"] = 1 /\ runs[r].entered["f4"] = 1
       /\ runs[r].fetches > 3
       /\ \A n \in {"f1", "f2", "f3"} : runs[r].uploads[n] = 1
       /\ runs[r].stats.ok >= 3

----------------------------------------------------------------------------
(* Properties of the full resync (specification SpecFull) *)

(* The full resync r answers 200 in this step *)
FullCompletes(r) ==
    /\ runs[r].kind \in FullKinds
    /\ runs[r].pc = "walk"
    /\ runs'[r].response = 200

(* C33: when a full resync answers 200, the watermark is the time the run *)
(* took at its start, not the floor the run had reset it to.              *)
C33_FullResyncAdvancesWatermark ==
    [][\A r \in RunIds :
          FullCompletes(r)
            => /\ lastSync' = runs[r].stamp
               /\ StrLess(DEFAULT_LAST_SYNC, lastSync')]_vars

----------------------------------------------------------------------------
(* Properties of the change feed (specification LiveSpecFeed) *)

(* C34: with notifications arriving again and again, the change of D that *)
(* lies behind the first page of the feed is passed to the change         *)
(* processor at some time, and the stored cursor leaves its position.     *)
C34_FeedProgress ==
    /\ <>(\E c \in CallIds : calls[c].fileId = "d1")
    /\ <>(pageToken # 0)

====
